---- MODULE Spec2Model ----
(***************************************************************************)
(* A model of electron-window-state (src/index.js): the factory function   *)
(* that loads a persisted window record, validates and reconciles it       *)
(* against the attached displays, and then tracks one managed window.      *)
(*                                                                         *)
(* JavaScript values are encoded as records [t, v]:                        *)
(*   [t |-> "int",  v |-> n]   the integer number n                        *)
(*   [t |-> "frac", v |-> n]   a non-integer number (n + 1/2)              *)
(*   [t |-> "bool", v |-> 0/1] false / true                                *)
(*   [t |-> "null", v |-> 0]   null or undefined                           *)
(* A window record is a function from the fields it has to such values; a  *)
(* field that is absent is not in its DOMAIN. Null stands for a record     *)
(* that is null or undefined.                                              *)
(***************************************************************************)
EXTENDS Integers, Sequences, FiniteSets, TLC

VARIABLES
    pc,               \* position in the factory function: "new" .. "ready"
    config,           \* the merged options (src/index.js:15-21)
    displays,         \* what screen.getAllDisplays() returns, in its order
    stored,           \* what the persistence collaborator holds (Null: nothing loadable)
    state,            \* `state` (src/index.js:11)
    enumerated,       \* whether screen.getAllDisplays() has been called
    winRef,           \* `winRef` (src/index.js:12)
    stateChangeTimer, \* `stateChangeTimer` (src/index.js:13); 0: undefined
    timers,           \* the timeouts that are pending in the event loop
    win,              \* the live windows: bounds, display mode, destroyed
    listeners,        \* listeners[w][e]: how often the controller's handler is registered
    closing,          \* the window whose 'close' was the last thing handled (history)
    burst,            \* resize/move notifications since a deferred read last ran (history)
    closedWrites,     \* writes made by the 'closed' handlers in the last step (history)
    staleRead,        \* whether the last step read a destroyed window (history)
    managed           \* the handles given to manage() and not yet unmanaged by the
                      \* caller or closed (history)

vars == <<pc, config, displays, stored, state, enumerated, winRef,
          stateChangeTimer, timers, win, listeners, closing, burst,
          closedWrites, staleRead, managed>>

----------------------------------------------------------------------------
(* Bounds of the model *)

\* x coordinates of persisted records range over -MaxCoord .. MaxCoord
MaxCoord == 3
\* widths and heights of persisted records range up to MaxSize
MaxSize == 3
\* a handle carries each controller listener at most MaxListeners times
MaxListeners == 2
\* timeout ids are drawn from 1 .. MaxTimerId
MaxTimerId == 3
\* the notifications of a burst are counted up to MaxBurst
MaxBurst == 3

(* Program constants *)
DefaultWidthFallback == 800
DefaultHeightFallback == 600

----------------------------------------------------------------------------
(* JavaScript values *)

I(n) == [t |-> "int", v |-> n]
Frac == [t |-> "frac", v |-> 0]
B(b) == [t |-> "bool", v |-> IF b THEN 1 ELSE 0]
Missing == [t |-> "absent", v |-> 0]
\* a field that is present with the value null or undefined
Nullish == [t |-> "null", v |-> 0]

Null == [null |-> B(TRUE)]

Fields == {"x", "y", "width", "height", "isMaximized", "isFullScreen"}

\* Number.isInteger(v)
IsInteger(val) == val.t = "int"

\* JavaScript truthiness of a value
Truthy(val) ==
    CASE val.t = "bool" -> val.v = 1
      [] val.t = "int"  -> val.v # 0
      [] val.t = "frac" -> TRUE
      [] OTHER          -> FALSE

Has(s, f) == s # Null /\ f \in DOMAIN s

\* s.f in a boolean context (an absent field is undefined, which is falsy)
FieldTruthy(s, f) == Has(s, f) /\ Truthy(s[f])

\* the object literal {x, y, width, height, isMaximized, isFullScreen} without
\* the fields given as Missing
MkRec(xv, yv, wv, hv, mv, fv) ==
    LET all == [x |-> xv, y |-> yv, width |-> wv, height |-> hv,
                isMaximized |-> mv, isFullScreen |-> fv]
    IN  [f \in {g \in Fields : all[g] # Missing} |-> all[f]]

\* Object.assign(target, source): source's own fields win
ObjectAssign(target, source) ==
    IF source = Null THEN target
    ELSE [f \in DOMAIN target \cup DOMAIN source |->
            IF f \in DOMAIN source THEN source[f] ELSE target[f]]

\* s with s.f = val assigned
SetField(s, f, val) ==
    [g \in DOMAIN s \cup {f} |-> IF g = f THEN val ELSE s[g]]

Min(a, b) == IF a < b THEN a ELSE b
Max(a, b) == IF a > b THEN a ELSE b

----------------------------------------------------------------------------
(* Configuration *)

\* config.defaultWidth || 800
DefaultWidth(cfg) ==
    IF cfg.defaultWidth # 0 THEN cfg.defaultWidth ELSE DefaultWidthFallback

\* config.defaultHeight || 600
DefaultHeight(cfg) ==
    IF cfg.defaultHeight # 0 THEN cfg.defaultHeight ELSE DefaultHeightFallback

----------------------------------------------------------------------------
(* Geometry and validation: the pure part of the factory function *)

\* faulty variant: a width or a height of 0 passes
hasBounds_AllowsZeroSize(s) ==
    /\ s # Null
    /\ Has(s, "x") /\ IsInteger(s["x"])
    /\ Has(s, "y") /\ IsInteger(s["y"])
    /\ Has(s, "width") /\ IsInteger(s["width"]) /\ s["width"].v >= 0
    /\ Has(s, "height") /\ IsInteger(s["height"]) /\ s["height"].v >= 0

\* hasBounds()
hasBounds(s) ==
    /\ s # Null
    /\ Has(s, "x") /\ IsInteger(s["x"])
    /\ Has(s, "y") /\ IsInteger(s["y"])
    /\ Has(s, "width") /\ IsInteger(s["width"]) /\ s["width"].v > 0
    /\ Has(s, "height") /\ IsInteger(s["height"]) /\ s["height"].v > 0

\* faulty variant: the origin is not set
resetStateToDefault_NoOrigin(cfg) ==
    [width  |-> I(DefaultWidth(cfg)),
     height |-> I(DefaultHeight(cfg))]

\* resetStateToDefault(): the new value of `state`
resetStateToDefault(cfg) ==
    [width  |-> I(DefaultWidth(cfg)),
     height |-> I(DefaultHeight(cfg)),
     x      |-> I(0),
     y      |-> I(0)]

\* faulty variant: x and y are moved before the width and the height are
\* shrunk
moveWithinBounds_TranslateFirst(s, bounds) ==
    LET w0 == s["width"].v
        x0 == s["x"].v
        x1 == IF x0 < bounds.x THEN bounds.x
              ELSE IF x0 + w0 > bounds.x + bounds.width
                   THEN bounds.x + bounds.width - w0
                   ELSE x0
        h0 == s["height"].v
        y0 == s["y"].v
        y1 == IF y0 < bounds.y THEN bounds.y
              ELSE IF y0 + h0 > bounds.y + bounds.height
                   THEN bounds.y + bounds.height - h0
                   ELSE y0
    IN  [f \in DOMAIN s |->
            CASE f = "width"  -> I(Min(w0, bounds.width))
              [] f = "x"      -> I(x1)
              [] f = "height" -> I(Min(h0, bounds.height))
              [] f = "y"      -> I(y1)
              [] OTHER        -> s[f]]

\* moveWithinBounds(bounds): the new value of `state`. The width is shrunk
\* before x is moved, and the height before y.
moveWithinBounds(s, bounds) ==
    LET w1 == Min(s["width"].v, bounds.width)
        x0 == s["x"].v
        x1 == IF x0 < bounds.x THEN bounds.x
              ELSE IF x0 + w1 > bounds.x + bounds.width
                   THEN bounds.x + bounds.width - w1
                   ELSE x0
        h1 == Min(s["height"].v, bounds.height)
        y0 == s["y"].v
        y1 == IF y0 < bounds.y THEN bounds.y
              ELSE IF y0 + h1 > bounds.y + bounds.height
                   THEN bounds.y + bounds.height - h1
                   ELSE y0
    IN  [f \in DOMAIN s |->
            CASE f = "width"  -> I(w1)
              [] f = "x"      -> I(x1)
              [] f = "height" -> I(h1)
              [] f = "y"      -> I(y1)
              [] OTHER        -> s[f]]

\* partOfWindowWithinBounds(bounds): the quotient, kept as the fraction
\* num / den that the code divides (den = state.width * state.height)
partOfWindowWithinBounds(s, bounds) ==
    LET visibleWidth ==
            Max(0, Min(s["x"].v + s["width"].v, bounds.x + bounds.width)
                   - Max(s["x"].v, bounds.x))
        visibleHeight ==
            Max(0, Min(s["y"].v + s["height"].v, bounds.y + bounds.height)
                   - Max(s["y"].v, bounds.y))
    IN  [num |-> visibleWidth * visibleHeight,
         den |-> s["width"].v * s["height"].v]

\* a > b for two quotients with positive denominators
RatioGreater(a, b) == a.num * b.den > b.num * a.den

\* a < 1 for a quotient with a positive denominator
RatioBelowOne(a) == a.num < a.den

\* faulty variant: the first display that shows any part of the window is kept
IsBetter_FirstVisible(visibility, bestVisibility) ==
    bestVisibility.num = 0 /\ visibility.num > 0

\* faulty variant: visibility >= bestVisibility, so that a tie keeps the last display
IsBetter_OrEqual(visibility, bestVisibility) ==
    visibility.num * bestVisibility.den >= bestVisibility.num * visibility.den

\* visibility > bestVisibility (src/index.js:73)
IsBetter(visibility, bestVisibility) == RatioGreater(visibility, bestVisibility)

\* the forEach of ensureWindowVisibleOnSomeDisplay over displays i..Len(ds):
\* best.bounds = 0 is bestBounds = null, else the index of the display
RECURSIVE BestDisplay(_, _, _, _)
BestDisplay(s, ds, i, best) ==
    IF i > Len(ds) THEN best
    ELSE LET visibility == partOfWindowWithinBounds(s, ds[i])
         IN  IF IsBetter(visibility, best.visibility)
             THEN BestDisplay(s, ds, i + 1, [bounds |-> i, visibility |-> visibility])
             ELSE BestDisplay(s, ds, i + 1, best)

\* faulty variant: the reset overwrites the bounds in place and keeps the mode flags
ensureWindowVisible_ResetKeepsFlags(s, ds, cfg) ==
    LET best == BestDisplay(s, ds, 1,
                    [bounds |-> 0, visibility |-> [num |-> 0, den |-> 1]])
    IN  IF best.bounds # 0
        THEN IF RatioBelowOne(best.visibility)
             THEN moveWithinBounds(s, ds[best.bounds])
             ELSE s
        ELSE ObjectAssign(s, resetStateToDefault(cfg))

\* ensureWindowVisibleOnSomeDisplay(): the new value of `state`
ensureWindowVisibleOnSomeDisplay(s, ds, cfg) ==
    LET best == BestDisplay(s, ds, 1,
                    [bounds |-> 0, visibility |-> [num |-> 0, den |-> 1]])
    IN  IF best.bounds # 0
        THEN IF RatioBelowOne(best.visibility)
             THEN moveWithinBounds(s, ds[best.bounds])
             ELSE s
        ELSE resetStateToDefault(cfg)

\* faulty variant: any loaded object counts as valid
isValid_AnyObject(s) == s # Null

\* const isValid = state && (hasBounds() || state.isMaximized || state.isFullScreen)
isValid(s) ==
    /\ s # Null
    /\ \/ hasBounds(s)
       \/ FieldTruthy(s, "isMaximized")
       \/ FieldTruthy(s, "isFullScreen")

\* faulty variant: a valid record without bounds is reset to the defaults
validateState_ResetsModeOnly(s, ds, cfg) ==
    IF ~isValid(s) THEN Null
    ELSE IF hasBounds(s) THEN ensureWindowVisibleOnSomeDisplay(s, ds, cfg)
    ELSE resetStateToDefault(cfg)

\* validateState(): the new value of `state`
validateState(s, ds, cfg) ==
    IF ~isValid(s) THEN Null
    ELSE IF hasBounds(s) THEN ensureWindowVisibleOnSomeDisplay(s, ds, cfg)
    ELSE s

\* whether validateState() reaches screen.getAllDisplays()
validateEnumerates(s) == isValid(s) /\ hasBounds(s)

\* state = Object.assign({width: ..., height: ...}, state)
mergeDefaults(s, cfg) ==
    ObjectAssign([width |-> I(DefaultWidth(cfg)), height |-> I(DefaultHeight(cfg))], s)

\* the factory function from the load to the fallback values
Construct(loaded, ds, cfg) == mergeDefaults(validateState(loaded, ds, cfg), cfg)

----------------------------------------------------------------------------
(* The inputs: persisted records, display layouts, options *)

XVals == {I(n) : n \in -MaxCoord .. MaxCoord} \cup {Missing, Frac}
YVals == {I(n) : n \in -1 .. 2} \cup {Missing, Frac}
WVals == {I(n) : n \in -1 .. MaxSize} \cup {Missing, Frac}
HVals == {I(n) : n \in 0 .. MaxSize} \cup {Missing, Frac}
MVals == {Missing, B(FALSE), B(TRUE)}
FVals == {Missing, B(TRUE)}

PersistedRecords ==
    {MkRec(xv, yv, wv, hv, mv, fv) :
        xv \in XVals, yv \in YVals, wv \in WVals, hv \in HVals,
        mv \in MVals, fv \in FVals}

\* Null: the file is missing or unreadable, or the store has no such key
PersistedInputs == {Null} \cup PersistedRecords

PrimaryDisplay == [x |-> 0, y |-> 0, width |-> 3, height |-> 2]
RightDisplay   == [x |-> 3, y |-> 0, width |-> 2, height |-> 2]
LeftDisplay    == [x |-> -2, y |-> 0, width |-> 2, height |-> 3]
\* a display whose bounds overlap the primary display's (a mirrored output)
MirrorDisplay  == [x |-> 2, y |-> 0, width |-> 3, height |-> 2]

DisplayLists ==
    { <<>>,
      <<PrimaryDisplay>>,
      <<RightDisplay>>,
      <<PrimaryDisplay, RightDisplay>>,
      <<RightDisplay, PrimaryDisplay>>,
      <<LeftDisplay, PrimaryDisplay>>,
      <<MirrorDisplay, PrimaryDisplay>> }

\* defaultWidth / defaultHeight 0: the option is not given
Configs ==
    {[defaultWidth |-> d[1], defaultHeight |-> d[2], maximize |-> m, fullScreen |-> f] :
        d \in {<<0, 0>>, <<2, 1>>, <<1, 1>>}, m \in BOOLEAN, f \in BOOLEAN}

CtorConfigs == {c \in Configs : c.maximize /\ c.fullScreen /\ c.defaultWidth # 1}

----------------------------------------------------------------------------
(* Windows *)

Windows == {"h1", "h2"}
NoWin == "none"
Events == {"resize", "move", "close", "closed"}

\* the bounds of the window that is left alone
WinBounds2 == [x |-> 1, y |-> 0, width |-> 2, height |-> 1]

\* the bounds a window may be resized or moved to
WinBounds ==
    { [x |-> 0, y |-> 0, width |-> 1, height |-> 1],
      [x |-> 1, y |-> 0, width |-> 2, height |-> 1] }

\* the windows that the user resizes, moves and switches between modes; the
\* other window keeps its bounds, and emits its events all the same
UserWindows == {"h1"}

BoundsOf(w) == IF w \in UserWindows THEN WinBounds ELSE {WinBounds2}

InitialWindow ==
    [bounds |-> [x |-> 0, y |-> 0, width |-> 1, height |-> 1],
     maximized |-> FALSE, minimized |-> FALSE, fullScreen |-> FALSE,
     destroyed |-> FALSE]

InitialBounds(w) == IF w \in UserWindows THEN InitialWindow.bounds ELSE WinBounds2

\* a destroyed window: every method of it throws, so that nothing of it is
\* read any more
DestroyedWindow == [InitialWindow EXCEPT !.destroyed = TRUE]


----------------------------------------------------------------------------
(* The factory function, step by step (src/index.js:180-198) *)

InitCtor ==
    /\ pc = "new"
    /\ config \in CtorConfigs
    /\ displays \in DisplayLists
    /\ stored \in PersistedInputs
    /\ state = Null
    /\ enumerated = FALSE
    /\ winRef = NoWin
    /\ stateChangeTimer = 0
    /\ timers = {}
    /\ win = [w \in Windows |-> [InitialWindow EXCEPT !.bounds = InitialBounds(w)]]
    /\ listeners = [w \in Windows |-> [e \in Events |-> 0]]
    /\ closing = NoWin
    /\ burst = 0
    /\ closedWrites = 0
    /\ staleRead = FALSE
    /\ managed = {}

\* config.store.get(...) / jsonfile.readFileSync(...): a failure leaves
\* `state` undefined
Load ==
    /\ pc = "new"
    /\ state' = stored
    /\ pc' = "loaded"
    /\ UNCHANGED <<config, displays, stored, enumerated, winRef,
                   stateChangeTimer, timers, win, listeners, closing, burst,
                   closedWrites, staleRead, managed>>

Validate ==
    /\ pc = "loaded"
    /\ state' = validateState(state, displays, config)
    /\ enumerated' = validateEnumerates(state)
    /\ pc' = "validated"
    /\ UNCHANGED <<config, displays, stored, winRef,
                   stateChangeTimer, timers, win, listeners, closing, burst,
                   closedWrites, staleRead, managed>>

Merge ==
    /\ pc = "validated"
    /\ state' = mergeDefaults(state, config)
    /\ pc' = "ready"
    /\ UNCHANGED <<config, displays, stored, enumerated, winRef,
                   stateChangeTimer, timers, win, listeners, closing, burst,
                   closedWrites, staleRead, managed>>

NextCtor == Load \/ Validate \/ Merge

SpecCtor == InitCtor /\ [][NextCtor]_vars

----------------------------------------------------------------------------
(* The controller: the functions behind the returned object and the        *)
(* listeners (src/index.js:101-178)                                        *)

\* isNormal(win)
isNormal(wn) == ~wn.maximized /\ ~wn.minimized /\ ~wn.fullScreen

\* faulty variant: the bounds are overwritten in every display mode
readWindow_IgnoresMode(s, wn) ==
    IF wn.destroyed THEN s
    ELSE SetField(SetField(SetField(SetField(SetField(SetField(s,
             "x", I(wn.bounds.x)),
             "y", I(wn.bounds.y)),
             "width", I(wn.bounds.width)),
             "height", I(wn.bounds.height)),
             "isMaximized", B(wn.maximized)),
             "isFullScreen", B(wn.fullScreen))

\* faulty variant: a destroyed window still answers, with the bounds and
\* the mode of a fresh window
readWindow_ReadsDestroyed(s, wn) ==
    LET s1 == IF isNormal(wn)
              THEN SetField(SetField(SetField(SetField(s,
                       "x", I(wn.bounds.x)),
                       "y", I(wn.bounds.y)),
                       "width", I(wn.bounds.width)),
                       "height", I(wn.bounds.height))
              ELSE s
    IN  SetField(SetField(s1,
            "isMaximized", B(wn.maximized)),
            "isFullScreen", B(wn.fullScreen))

\* updateState(win) for a window wn that is given or tracked: the new value
\* of `state`. Every method of a destroyed window throws, getBounds() first,
\* and the catch leaves `state` as it was.
readWindow(s, wn) ==
    IF wn.destroyed THEN s
    ELSE LET s1 == IF isNormal(wn)
                   THEN SetField(SetField(SetField(SetField(s,
                            "x", I(wn.bounds.x)),
                            "y", I(wn.bounds.y)),
                            "width", I(wn.bounds.width)),
                            "height", I(wn.bounds.height))
                   ELSE s
         IN  SetField(SetField(s1,
                 "isMaximized", B(wn.maximized)),
                 "isFullScreen", B(wn.fullScreen))

\* win = win || winRef
readTarget(w, ref) == IF w # NoWin THEN w ELSE ref

\* updateState(win): the new value of `state`; w = NoWin: no argument
updateState(s, w, ref, wins) ==
    IF readTarget(w, ref) = NoWin THEN s
    ELSE readWindow(s, wins[readTarget(w, ref)])

\* whether updateState(win) calls getBounds() on a destroyed window, which
\* throws into the catch
readsDestroyed(w, ref, wins) ==
    readTarget(w, ref) # NoWin /\ wins[readTarget(w, ref)].destroyed

\* the timeout ids that are free for a new setTimeout
FreeTimerIds(tm) == (1 .. MaxTimerId) \ tm.pending

\* faulty variant: the pending timeout is not cleared
stateChangeHandler_NoClear(tm) ==
    LET fresh == CHOOSE i \in FreeTimerIds(tm) : \A j \in FreeTimerIds(tm) : i <= j
    IN  [id |-> fresh, pending |-> tm.pending \cup {fresh}]

\* stateChangeHandler(): clearTimeout(stateChangeTimer), then
\* stateChangeTimer = setTimeout(updateState, eventHandlingDelay), on
\* tm = [id |-> stateChangeTimer, pending |-> timers]. The delay is not
\* modelled: a pending timeout may expire at any later step. An id names a
\* pending timeout only, so the id of an expired or cleared one is used again.
stateChangeHandler(tm) ==
    LET cleared == [id |-> tm.id, pending |-> tm.pending \ {tm.id}]
        fresh == CHOOSE i \in FreeTimerIds(cleared) :
                    \A j \in FreeTimerIds(cleared) : i <= j
    IN  [id |-> fresh, pending |-> cleared.pending \cup {fresh}]

\* the n registrations of stateChangeHandler on one handle, run in turn
RECURSIVE emitStateChange(_, _)
emitStateChange(tm, n) ==
    IF n = 0 THEN tm ELSE emitStateChange(stateChangeHandler(tm), n - 1)

\* removeListener on the handle ref, once for each of the four events
removeListeners(ls, ref) ==
    [ls EXCEPT ![ref] = [e \in Events |-> IF ls[ref][e] > 0 THEN ls[ref][e] - 1 ELSE 0]]

\* faulty variant: the pending timeout survives unmanage()
unmanage_KeepsTimer(c) ==
    IF c.winRef # NoWin
    THEN [c EXCEPT !.listeners = removeListeners(c.listeners, c.winRef),
                   !.winRef = NoWin]
    ELSE c

\* faulty variant: the handle stays tracked after unmanage()
unmanage_KeepsHandle(c) ==
    IF c.winRef # NoWin
    THEN [c EXCEPT !.listeners = removeListeners(c.listeners, c.winRef),
                   !.timers = c.timers \ {c.stateChangeTimer}]
    ELSE c

\* unmanage() on c = [winRef, listeners, stateChangeTimer, timers]
unmanage(c) ==
    IF c.winRef # NoWin
    THEN [c EXCEPT !.listeners = removeListeners(c.listeners, c.winRef),
                   !.timers = c.timers \ {c.stateChangeTimer},
                   !.winRef = NoWin]
    ELSE c

\* the controller's variables that unmanage() works on
Controller ==
    [winRef |-> winRef, listeners |-> listeners,
     stateChangeTimer |-> stateChangeTimer, timers |-> timers]

\* faulty variant: the modes are restored whatever the options say
restoreMode_IgnoresOptions(wn, s, cfg) ==
    [wn EXCEPT
        !.maximized = IF FieldTruthy(s, "isMaximized") THEN TRUE ELSE wn.maximized,
        !.fullScreen = IF FieldTruthy(s, "isFullScreen") THEN TRUE ELSE wn.fullScreen]

\* win.maximize() / win.setFullScreen(true) of manage(win)
restoreMode(wn, s, cfg) ==
    [wn EXCEPT
        !.maximized = IF cfg.maximize /\ FieldTruthy(s, "isMaximized")
                      THEN TRUE ELSE wn.maximized,
        !.fullScreen = IF cfg.fullScreen /\ FieldTruthy(s, "isFullScreen")
                       THEN TRUE ELSE wn.fullScreen]

\* win.on(...) of manage(win), once for each of the four events
addListeners(ls, w) == [ls EXCEPT ![w] = [e \in Events |-> ls[w][e] + 1]]

\* faulty variant: the exception of a failing write is not caught
persist_Propagates(s, old, ok) ==
    [stored |-> IF ok THEN s ELSE old, pc |-> IF ok THEN "ready" ELSE "thrown"]

\* the try/catch around the write of saveState: s is the record, old what
\* persistence holds, ok whether the write succeeds. A write that throws
\* leaves persistence as it was, and the catch lets the caller go on.
persist(s, old, ok) ==
    [stored |-> IF ok THEN s ELSE old, pc |-> "ready"]

\* the getters of the returned object: get f() { return state.f; }, which
\* is undefined for a field the record does not have
Get(s, f) == IF f \in DOMAIN s THEN s[f] ELSE Nullish

\* the records the controller starts from
SpecInputs ==
    { Null,
      MkRec(I(1), I(0), I(2), I(1), B(TRUE), B(TRUE)) }

\* the options the controller runs with: both modes are restored by manage,
\* and the default rectangle is that of a new window
SpecConfigs == {c \in Configs : c.defaultWidth = 1 /\ c.fullScreen /\ c.maximize}

\* the state when the factory function returns
Constructed ==
    /\ pc = "ready"
    /\ displays = <<PrimaryDisplay>>
    /\ state = Construct(stored, displays, config)
    /\ enumerated = validateEnumerates(stored)
    /\ winRef = NoWin
    /\ stateChangeTimer = 0
    /\ timers = {}
    /\ listeners = [w \in Windows |-> [e \in Events |-> 0]]
    /\ closing = NoWin
    /\ burst = 0
    /\ closedWrites = 0
    /\ staleRead = FALSE
    /\ managed = {}

\* an application with one window
Init ==
    /\ config \in SpecConfigs
    /\ stored \in SpecInputs
    /\ win = [w \in Windows |->
                IF w \in UserWindows THEN InitialWindow ELSE DestroyedWindow]
    /\ Constructed

\* an application with two windows
InitTwo ==
    /\ config \in SpecConfigs
    /\ stored \in SpecInputs
    /\ win = [w \in Windows |-> [InitialWindow EXCEPT !.bounds = InitialBounds(w)]]
    /\ Constructed

\* manage(win)
Manage(w) ==
    /\ pc = "ready"
    /\ ~win[w].destroyed
    /\ listeners[w]["resize"] < MaxListeners
    /\ win' = [win EXCEPT ![w] = restoreMode(win[w], state, config)]
    /\ listeners' = addListeners(listeners, w)
    /\ winRef' = w
    /\ closing' = NoWin
    /\ closedWrites' = 0
    /\ staleRead' = FALSE
    /\ managed' = managed \cup {w}
    /\ UNCHANGED <<burst, pc, config, displays, stored, state, enumerated,
                   stateChangeTimer, timers>>

\* unmanage()
Unmanage ==
    /\ pc = "ready"
    /\ LET c == unmanage(Controller)
       IN  /\ winRef' = c.winRef
           /\ listeners' = c.listeners
           /\ stateChangeTimer' = c.stateChangeTimer
           /\ timers' = c.timers
    /\ closing' = NoWin
    /\ closedWrites' = 0
    /\ staleRead' = FALSE
    /\ managed' = managed \ {winRef}
    /\ UNCHANGED <<burst, pc, config, displays, stored, state, enumerated, win>>

\* saveState(win); w = NoWin: no argument. The write may fail, and the
\* catch ignores it.
SaveState(w) ==
    /\ pc = "ready"
    /\ UNCHANGED <<win, timers, listeners, winRef, burst, stateChangeTimer,
                   config, displays, enumerated>>
    /\ closing' = NoWin
    /\ closedWrites' = 0
    /\ staleRead' = readsDestroyed(w, winRef, win)
    /\ UNCHANGED managed
    /\ state' = IF w # NoWin THEN updateState(state, w, winRef, win) ELSE state
    /\ \E ok \in BOOLEAN :
          /\ stored' = persist(state', stored, ok).stored
          /\ pc' = persist(state', stored, ok).pc

\* resetStateToDefault()
ResetStateToDefault ==
    /\ pc = "ready"
    /\ state' = resetStateToDefault(config)
    /\ closing' = NoWin
    /\ closedWrites' = 0
    /\ staleRead' = FALSE
    /\ UNCHANGED managed
    /\ UNCHANGED <<burst, pc, config, displays, stored, enumerated, winRef,
                   stateChangeTimer, timers, win, listeners>>

\* window w is resized or moved to the bounds b and emits the event e
\* ('resize' or 'move'): stateChangeHandler runs once per registration
StateChange(w, e, b) ==
    /\ pc = "ready"
    /\ ~win[w].destroyed
    /\ Cardinality(timers) + listeners[w][e] <= MaxTimerId
    /\ win' = [win EXCEPT ![w].bounds = b]
    /\ burst' = Min(burst + listeners[w][e], MaxBurst)
    /\ closing' = NoWin
    /\ closedWrites' = 0
    /\ staleRead' = FALSE
    /\ UNCHANGED managed
    /\ UNCHANGED <<state, stored, listeners, winRef,
                   pc, config, displays, enumerated>>
    /\ LET tm == emitStateChange([id |-> stateChangeTimer, pending |-> timers],
                                 listeners[w][e])
       IN  /\ stateChangeTimer' = tm.id
           /\ timers' = tm.pending

Resize(w) == \E b \in BoundsOf(w) : StateChange(w, "resize", b)

Move(w) == \E b \in BoundsOf(w) : StateChange(w, "move", b)

\* the user or the window manager maximizes, minimizes or restores window w,
\* or switches its fullscreen mode: a window in its normal mode enters one
\* of the other modes, or a window leaves a mode it is in
SetMode(w) ==
    /\ pc = "ready"
    /\ ~win[w].destroyed
    /\ w \in UserWindows
    /\ \E f \in {"maximized", "minimized", "fullScreen"} :
          /\ win[w][f] \/ isNormal(win[w])
          /\ win' = [win EXCEPT ![w][f] = ~win[w][f]]
    /\ closing' = NoWin
    /\ closedWrites' = 0
    /\ staleRead' = FALSE
    /\ UNCHANGED managed
    /\ UNCHANGED <<burst, pc, config, displays, stored, state, enumerated, winRef,
                   stateChangeTimer, timers, listeners>>

\* the timeout id expires: updateState() runs without an argument
TimerFire(id) ==
    /\ pc = "ready"
    /\ id \in timers
    /\ timers' = timers \ {id}
    /\ burst' = 0
    /\ closing' = NoWin
    /\ closedWrites' = 0
    /\ staleRead' = readsDestroyed(NoWin, winRef, win)
    /\ UNCHANGED managed
    /\ UNCHANGED <<win, listeners, winRef, stateChangeTimer, stored,
                   pc, config, displays, enumerated>>
    /\ state' = updateState(state, NoWin, winRef, win)

\* window w emits 'close': closeHandler runs once per registration
Close(w) ==
    /\ pc = "ready"
    /\ ~win[w].destroyed
    /\ closing' = w
    /\ closedWrites' = 0
    /\ staleRead' = (listeners[w]["close"] > 0 /\ readsDestroyed(NoWin, winRef, win))
    /\ UNCHANGED managed
    /\ UNCHANGED <<win, timers, listeners, winRef, burst, stateChangeTimer,
                   stored, pc, config, displays, enumerated>>
    /\ state' = IF listeners[w]["close"] > 0
                THEN updateState(state, NoWin, winRef, win)
                ELSE state

\* window w is destroyed and emits 'closed': closedHandler runs once per
\* registration (the emitter calls the listeners it had when the event was
\* emitted); the first run unmanages the tracked handle, every run saves
Closed(w) ==
    /\ pc = "ready"
    /\ ~win[w].destroyed
    /\ UNCHANGED <<burst, config, displays, state, enumerated>>
    /\ win' = [win EXCEPT ![w] = DestroyedWindow]
    /\ LET n == listeners[w]["closed"]
           c == IF n > 0 THEN unmanage(Controller) ELSE Controller
       IN  /\ winRef' = c.winRef
           /\ listeners' = c.listeners
           /\ stateChangeTimer' = c.stateChangeTimer
           /\ timers' = c.timers
           /\ \E ok \in BOOLEAN :
                 /\ stored' = IF n > 0 THEN persist(state, stored, ok).stored ELSE stored
                 /\ pc' = IF n > 0 THEN persist(state, stored, ok).pc ELSE pc
           /\ closing' = NoWin
           /\ closedWrites' = n
           /\ staleRead' = FALSE
           /\ managed' = managed \ {w}

Next ==
    \/ \E w \in Windows : Manage(w)
    \/ Unmanage
    \/ \E w \in UserWindows \cup {NoWin} : SaveState(w)
    \/ ResetStateToDefault
    \/ \E w \in Windows : Resize(w)
    \/ \E w \in Windows : Move(w)
    \/ \E w \in Windows : SetMode(w)
    \/ \E id \in 1 .. MaxTimerId : TimerFire(id)
    \/ \E w \in Windows : Close(w)
    \/ \E w \in Windows : Closed(w)

Spec == Init /\ [][Next]_vars

\* two windows: manage, unmanage and what the windows and the event loop
\* deliver
NextTwo ==
    \/ \E w \in Windows : Manage(w)
    \/ Unmanage
    \/ \E w \in Windows : Resize(w)
    \/ \E w \in Windows : Move(w)
    \/ \E id \in 1 .. MaxTimerId : TimerFire(id)
    \/ \E w \in Windows : Close(w)
    \/ \E w \in Windows : Closed(w)

SpecTwo == InitTwo /\ [][NextTwo]_vars

----------------------------------------------------------------------------
(* moveWithinBounds on its own: any rectangle with positive sizes against  *)
(* any bounds with positive sizes                                          *)

ClampRects ==
    {MkRec(I(x), I(y), I(w), I(h), Missing, Missing) :
        x \in -MaxCoord .. MaxCoord, y \in -1 .. 2,
        w \in 1 .. MaxSize, h \in 1 .. MaxSize}

ClampBounds ==
    {[x |-> x, y |-> y, width |-> w, height |-> h] :
        x \in -1 .. 1, y \in -1 .. 1, w \in 1 .. MaxSize, h \in 1 .. MaxSize}

\* `state` is the rectangle, the one display has the bounds, and `stored`
\* keeps the rectangle as it was
InitClamp ==
    /\ pc = "clamp"
    /\ config \in {c \in CtorConfigs : c.defaultWidth = 0}
    /\ displays \in {<<b>> : b \in ClampBounds}
    /\ stored \in ClampRects
    /\ state = stored
    /\ enumerated = TRUE
    /\ winRef = NoWin
    /\ stateChangeTimer = 0
    /\ timers = {}
    /\ win = [w \in Windows |-> [InitialWindow EXCEPT !.bounds = InitialBounds(w)]]
    /\ listeners = [w \in Windows |-> [e \in Events |-> 0]]
    /\ closing = NoWin
    /\ burst = 0
    /\ closedWrites = 0
    /\ staleRead = FALSE
    /\ managed = {}

\* moveWithinBounds(bestBounds)
Clamp ==
    /\ pc = "clamp"
    /\ state' = moveWithinBounds(state, displays[1])
    /\ pc' = "clamped"
    /\ UNCHANGED <<config, displays, stored, enumerated, winRef,
                   stateChangeTimer, timers, win, listeners, closing, burst,
                   closedWrites, staleRead, managed>>

SpecClamp == InitClamp /\ [][Clamp]_vars

----------------------------------------------------------------------------
(* The whole life of a controller: the factory function, then what the     *)
(* caller does with the returned object and the closing of the window      *)

\* nothing loadable; a record with a mode flag only; two records with bounds;
\* a record with a mode flag whose width is null
LifeInputs ==
    { Null,
      MkRec(Missing, Missing, Missing, Missing, B(TRUE), Missing),
      MkRec(I(1), I(0), I(2), I(1), B(TRUE), B(TRUE)),
      MkRec(I(0), I(0), I(1), I(1), B(FALSE), B(TRUE)),
      MkRec(Missing, Missing, Nullish, Missing, B(TRUE), Missing) }

LifeConfigs == {c \in Configs : c.defaultWidth # 2}

InitLife ==
    /\ pc = "new"
    /\ config \in LifeConfigs
    /\ displays = <<PrimaryDisplay>>
    /\ stored \in LifeInputs
    /\ state = Null
    /\ enumerated = FALSE
    /\ winRef = NoWin
    /\ stateChangeTimer = 0
    /\ timers = {}
    /\ win = [w \in Windows |->
                IF w \in UserWindows THEN InitialWindow ELSE DestroyedWindow]
    /\ listeners = [w \in Windows |-> [e \in Events |-> 0]]
    /\ closing = NoWin
    /\ burst = 0
    /\ closedWrites = 0
    /\ staleRead = FALSE
    /\ managed = {}

NextLife ==
    \/ Load
    \/ Validate
    \/ Merge
    \/ \E w \in Windows : Manage(w)
    \/ Unmanage
    \/ \E w \in UserWindows \cup {NoWin} : SaveState(w)
    \/ ResetStateToDefault
    \/ \E w \in Windows : SetMode(w)
    \/ \E w \in Windows : Closed(w)

SpecLife == InitLife /\ [][NextLife]_vars

----------------------------------------------------------------------------
(* What the properties of the factory function are stated with: the        *)
(* geometry of section 4.1 of the specification, written without the       *)
(* code's arithmetic.                                                      *)

BoundFields == {"x", "y", "width", "height"}

\* a record is boundable: x, y, width, height present integers, sizes > 0
Boundable(r) ==
    /\ r # Null
    /\ \A f \in BoundFields : f \in DOMAIN r /\ r[f].t = "int"
    /\ r["width"].v > 0
    /\ r["height"].v > 0

FlagTrue(r, f) == r # Null /\ f \in DOMAIN r /\ r[f] = B(TRUE)

ModeOnly(r) ==
    /\ r # Null
    /\ ~Boundable(r)
    /\ FlagTrue(r, "isMaximized") \/ FlagTrue(r, "isFullScreen")

Rect(r) ==
    [x |-> r["x"].v, y |-> r["y"].v, width |-> r["width"].v, height |-> r["height"].v]

Area(rect) == rect.width * rect.height

\* the unit cells of rect that lie in bounds, counted
OverlapCells(rect, bounds) ==
    Cardinality({c \in (rect.x .. rect.x + rect.width - 1)
                        \X (rect.y .. rect.y + rect.height - 1) :
                    /\ bounds.x <= c[1] /\ c[1] < bounds.x + bounds.width
                    /\ bounds.y <= c[2] /\ c[2] < bounds.y + bounds.height})

Intersects(rect, bounds) ==
    /\ rect.x < bounds.x + bounds.width /\ bounds.x < rect.x + rect.width
    /\ rect.y < bounds.y + bounds.height /\ bounds.y < rect.y + rect.height

Inside(rect, bounds) ==
    /\ bounds.x <= rect.x /\ rect.x + rect.width <= bounds.x + bounds.width
    /\ bounds.y <= rect.y /\ rect.y + rect.height <= bounds.y + bounds.height

Abs(n) == IF n < 0 THEN -n ELSE n

\* the point of lo .. hi nearest to p
Nearest(p, lo, hi) ==
    CHOOSE q \in lo .. hi : \A q2 \in lo .. hi : Abs(q - p) <= Abs(q2 - p)

\* clampInto of section 4.1: sizes shrunk to the bounds', then the nearest
\* position at which the rectangle lies within the bounds
ClampInto(rect, bounds) ==
    LET w == IF rect.width <= bounds.width THEN rect.width ELSE bounds.width
        h == IF rect.height <= bounds.height THEN rect.height ELSE bounds.height
    IN  [x |-> Nearest(rect.x, bounds.x, bounds.x + bounds.width - w),
         y |-> Nearest(rect.y, bounds.y, bounds.y + bounds.height - h),
         width |-> w, height |-> h]

\* the display with the maximum overlap, the first of them on a tie
BestIndex(rect, ds) ==
    CHOOSE i \in 1 .. Len(ds) :
        /\ \A j \in 1 .. Len(ds) : OverlapCells(rect, ds[j]) <= OverlapCells(rect, ds[i])
        /\ \A j \in 1 .. i - 1 : OverlapCells(rect, ds[j]) < OverlapCells(rect, ds[i])

\* record r with its rectangle replaced, every other field kept
WithRect(r, rect) ==
    [f \in DOMAIN r |-> IF f \in BoundFields THEN I(rect[f]) ELSE r[f]]

\* {width: defaultWidth (else 800), height: defaultHeight (else 600)}
SizeDefaults ==
    [width  |-> I(IF config.defaultWidth # 0 THEN config.defaultWidth ELSE 800),
     height |-> I(IF config.defaultHeight # 0 THEN config.defaultHeight ELSE 600)]

\* {width: default, height: default, x: 0, y: 0}
DefaultRecord ==
    [width |-> SizeDefaults.width, height |-> SizeDefaults.height,
     x |-> I(0), y |-> I(0)]

Reconciled == pc \in {"validated", "ready"}

\* the loaded rectangle overlaps no attached display
FullyInvisible ==
    \A i \in 1 .. Len(displays) : OverlapCells(Rect(stored), displays[i]) = 0

----------------------------------------------------------------------------
(* C1: after initialization from a boundable record, with at least one     *)
(* display attached, the record's rectangle overlaps some attached         *)
(* display. The code resets an invisible window to x = 0, y = 0 without    *)
(* looking at the displays, so this fails when no display covers the       *)
(* origin.                                                                 *)
C1_NeverFullyInvisible ==
    (pc = "ready" /\ Boundable(stored) /\ Len(displays) >= 1)
        => \E i \in 1 .. Len(displays) : Intersects(Rect(state), displays[i])

(* C2: a boundable record that overlaps no attached display is replaced    *)
(* by the default record {width, height, x: 0, y: 0}; it is not clamped    *)
(* and its mode flags are not retained.                                    *)
C2_InvisibleIsReset ==
    (Reconciled /\ Boundable(stored) /\ FullyInvisible) => state = DefaultRecord

C2_Witness ==
    /\ pc = "ready" /\ Boundable(stored) /\ FullyInvisible
    /\ Len(displays) >= 1
    /\ FlagTrue(stored, "isMaximized") /\ FlagTrue(stored, "isFullScreen")
    /\ config.defaultWidth # 0

(* C3: a boundable record that lies fully inside an attached display has   *)
(* overlap ratio 1 with it, is returned unchanged, and is a fixed point    *)
(* of the reconciliation, also when other displays overlap it partly.      *)
C3_ContainedIsKept ==
    (Reconciled /\ Boundable(stored)) =>
        \A i \in 1 .. Len(displays) :
            Inside(Rect(stored), displays[i]) =>
                /\ LET ratio == partOfWindowWithinBounds(stored, displays[i])
                   IN  ratio.den # 0 /\ ratio.num = ratio.den
                /\ state = stored
                /\ validateState(state, displays, config) = state

C3_Witness ==
    /\ pc = "ready" /\ Boundable(stored)
    /\ \E i, j \in 1 .. Len(displays) :
          /\ j < i
          /\ Inside(Rect(stored), displays[i])
          /\ OverlapCells(Rect(stored), displays[j]) > 0
          /\ ~Inside(Rect(stored), displays[j])
    /\ FlagTrue(stored, "isMaximized")

(* C4: a boundable record whose best overlap is strictly between 0 and 1   *)
(* becomes clampInto(record, bounds of the best display), the best display *)
(* being the first of those with the maximum overlap; the mode flags stay  *)
(* as loaded.                                                              *)
C4_PartialIsClamped ==
    (Reconciled /\ Boundable(stored) /\ Len(displays) >= 1) =>
        LET rect == Rect(stored)
            best == displays[BestIndex(rect, displays)]
        IN  (0 < OverlapCells(rect, best) /\ OverlapCells(rect, best) < Area(rect))
                => state = WithRect(stored, ClampInto(rect, best))

C4_Witness ==
    /\ pc = "ready" /\ Boundable(stored) /\ Len(displays) = 2
    /\ OverlapCells(Rect(stored), displays[1]) = OverlapCells(Rect(stored), displays[2])
    /\ OverlapCells(Rect(stored), displays[1]) > 0
    /\ OverlapCells(Rect(stored), displays[1]) < Area(Rect(stored))
    /\ ClampInto(Rect(stored), displays[1]) # ClampInto(Rect(stored), displays[2])
    /\ FlagTrue(stored, "isMaximized")
    /\ state # stored

C6_ModeOnlyPassesThrough ==
    (Reconciled /\ ModeOnly(stored)) =>
        /\ ~enumerated
        /\ pc = "validated" => state = stored
        /\ \A f \in DOMAIN stored : state[f] = stored[f]

C6_Witness ==
    /\ pc = "validated" /\ ModeOnly(stored)
    /\ Len(displays) >= 1
    /\ "x" \in DOMAIN stored /\ stored["x"] = I(3)
    /\ "width" \in DOMAIN stored /\ stored["width"] = Frac
    /\ "height" \notin DOMAIN stored

----------------------------------------------------------------------------
(* What the properties of the controller are stated with *)

NormalMode(wn) == wn.maximized = FALSE /\ wn.minimized = FALSE /\ wn.fullScreen = FALSE

\* record s after a read of the live window wn: the mode flags are wn's, the
\* bounds are wn's if wn is in its normal mode and are left alone otherwise
AfterRead(s, wn) ==
    [f \in DOMAIN s \cup {"isMaximized", "isFullScreen"}
              \cup (IF NormalMode(wn) THEN BoundFields ELSE {}) |->
        IF f = "isMaximized" THEN B(wn.maximized)
        ELSE IF f = "isFullScreen" THEN B(wn.fullScreen)
        ELSE IF f \in BoundFields /\ NormalMode(wn) THEN I(wn.bounds[f])
        ELSE s[f]]

\* the steps in which updateState reads the live window w
DeferredReadOf(w) == winRef = w /\ \E id \in 1 .. MaxTimerId : TimerFire(id)
CloseReadOf(w) == winRef = w /\ \E v \in Windows : Close(v) /\ listeners[v]["close"] > 0
SaveReadOf(w) == SaveState(w)
ReadOf(w) == ~win[w].destroyed /\ (DeferredReadOf(w) \/ CloseReadOf(w) \/ SaveReadOf(w))

\* window w emits 'resize' or 'move'
NotifiedBy(w) == Resize(w) \/ Move(w)

(* C7: every read of a live window overwrites the record's mode flags from *)
(* the window, and its bounds only if the window is neither maximized,     *)
(* minimized nor fullscreen; the resize, move and close events change the  *)
(* record in no other way, so that its bounds stay those of the last read  *)
(* taken in normal mode.                                                   *)
C7_ReadKeepsNormalBounds ==
    [][/\ \A w \in Windows : ReadOf(w) => state' = AfterRead(state, win[w])
       /\ \A w \in Windows :
            \/ state' = state
            \/ winRef # NoWin /\ state' = AfterRead(state, win[winRef])
            \/ ~(NotifiedBy(w) \/ Close(w))]_vars

\* a read of the maximized window has kept the bounds of an earlier read
C7_Witness ==
    /\ stored = Null
    /\ winRef = "h1" /\ win["h1"].maximized /\ ~win["h1"].destroyed
    /\ win["h1"].bounds.x = 1
    /\ burst = 0 /\ stateChangeTimer # 0 /\ timers = {}
    /\ "x" \in DOMAIN state /\ state["x"] = I(0)
    /\ FlagTrue(state, "isMaximized")

(* C8: resize/move notifications are coalesced: at most one deferred read  *)
(* is pending in any state; a notification reads nothing and leaves        *)
(* exactly one deferred read pending; and when the timeout expires after a *)
(* burst of notifications, one read of the tracked window is taken, of its *)
(* bounds at that time, and no deferred read is left pending.              *)
C8_Coalesced ==
    /\ [](Cardinality(timers) <= 1)
    /\ [][/\ \A w \in Windows :
                (listeners[w]["resize"] > 0 /\ NotifiedBy(w)) =>
                    /\ state' = state
                    /\ Cardinality(timers') = 1
                    /\ stateChangeTimer' \in timers'
          /\ \A w \in Windows :
                (burst >= 1 /\ ~win[w].destroyed /\ DeferredReadOf(w)) =>
                    /\ state' = AfterRead(state, win[w])
                    /\ timers' = {}
                    /\ burst' = 0]_vars

\* a burst of three notifications is pending as one deferred read
C8_Witness ==
    /\ burst = 3
    /\ Cardinality(timers) = 1
    /\ winRef = "h1" /\ listeners["h1"]["resize"] = 1
    /\ NormalMode(win["h1"]) /\ win["h1"].bounds.x = 1
    /\ "x" \in DOMAIN state /\ state["x"] = I(0)

(* C9: when the managed window emits 'close' and then 'closed' while a     *)
(* deferred read is pending, the record is the one read at 'close', the    *)
(* pending read is cancelled, the record is not changed by 'closed', and   *)
(* what is written to persistence is that record.                          *)
C9_CloseThenClosed ==
    /\ [](\A w \in Windows :
            (closing = w /\ winRef = w /\ listeners[w]["close"] > 0)
                => state = AfterRead(state, win[w]))
    /\ [][\A w \in Windows :
            (closing = w /\ winRef = w /\ Closed(w)) =>
                /\ timers' = {}
                /\ winRef' = NoWin
                /\ state' = state
                /\ stored' = state \/ stored' = stored]_vars

\* the window is gone, the notifications of its last burst were never read
\* by a deferred read, and the record of the close-time read is persisted
C9_Witness ==
    /\ win["h1"].destroyed
    /\ burst >= 1 /\ timers = {} /\ winRef = NoWin
    /\ stored = state
    /\ "x" \in DOMAIN state /\ state["x"] = I(1)
    /\ "isMaximized" \in DOMAIN state /\ state["isMaximized"] = B(FALSE)
    /\ listeners["h1"]["closed"] = 0

(* C10: only the currently tracked handle carries controller listeners.    *)
(* manage(h2) adds its listeners to h2 and tracks it, and leaves those on  *)
(* h1 in place.                                                            *)
C10_OnlyTrackedHandleHasListeners ==
    \A w \in Windows : \A e \in Events :
        (listeners[w][e] > 0 /\ ~win[w].destroyed) => w = winRef

\* a window or the event loop delivers something to the controller
WindowEvent ==
    \/ \E w \in Windows : NotifiedBy(w) \/ Close(w) \/ Closed(w)
    \/ \E id \in 1 .. MaxTimerId : TimerFire(id)

C12_OneWritePerSession ==
    [][\A w \in Windows :
          (w \in managed /\ Closed(w)) => closedWrites' = 1]_vars

(* C13: when the 'closed' notification of a window has been handled by the *)
(* controller, that window carries no controller listener any more and no  *)
(* handle is tracked. unmanage() removes one registration per event, so a  *)
(* handle that manage was called on twice keeps one of each.               *)
C13_NoListenersAfterClosed ==
    [][\A w \in Windows :
          (listeners[w]["closed"] > 0 /\ Closed(w)) =>
              /\ \A e \in Events : listeners'[w][e] = 0
              /\ winRef' = NoWin]_vars

(* C14: manage(win) maximizes the window exactly if the maximize option is *)
(* on and the record's isMaximized is true, and makes it fullscreen        *)
(* exactly if the fullScreen option is on and the record's isFullScreen is *)
(* true; a mode the window is in already stays, its bounds and its         *)
(* minimized state are not touched, and the record is left as it is.       *)
C14_ManageRestoresModes ==
    [][\A w \in Windows : Manage(w) =>
          /\ win'[w].maximized =
                (win[w].maximized
                    \/ (config.maximize /\ FlagTrue(state, "isMaximized")))
          /\ win'[w].fullScreen =
                (win[w].fullScreen
                    \/ (config.fullScreen /\ FlagTrue(state, "isFullScreen")))
          /\ win'[w].bounds = win[w].bounds
          /\ win'[w].minimized = win[w].minimized
          /\ state' = state
          /\ stored' = stored]_vars

\* manage has restored the maximized mode and, its option being off, not the
\* fullscreen mode that the record asks for as well
C14_Witness ==
    /\ pc = "ready"
    /\ config.maximize /\ ~config.fullScreen
    /\ FlagTrue(state, "isMaximized") /\ FlagTrue(state, "isFullScreen")
    /\ winRef = "h1" /\ listeners["h1"]["resize"] = 1
    /\ win["h1"].maximized /\ ~win["h1"].fullScreen /\ ~win["h1"].destroyed

(* C15: resetStateToDefault() makes the record exactly {width: default,    *)
(* height: default, x: 0, y: 0}, without mode flags, in whatever state it  *)
(* is called; the tracked handle, the listeners, the pending timeout, the  *)
(* windows and the persisted data stay as they are; and the accessors      *)
(* return the new values right away.                                       *)
C15_ResetFrame ==
    [][ResetStateToDefault =>
          /\ state' = DefaultRecord
          /\ Get(state', "x") = I(0) /\ Get(state', "y") = I(0)
          /\ Get(state', "width") = SizeDefaults.width
          /\ Get(state', "height") = SizeDefaults.height
          /\ Get(state', "isMaximized") = Nullish
          /\ Get(state', "isFullScreen") = Nullish
          /\ UNCHANGED <<winRef, listeners, timers, stateChangeTimer, win,
                         stored>>]_vars

\* the record has been reset while a maximized window was tracked and a
\* deferred read of it was pending
C15_Witness ==
    /\ state = DefaultRecord
    /\ winRef = "h1" /\ listeners["h1"]["resize"] = 2
    /\ win["h1"].maximized /\ win["h1"].bounds.x = 1
    /\ timers # {} /\ stateChangeTimer \in timers /\ burst >= 1

(* C16: a failure of persistence does not reach the caller. When nothing   *)
(* could be loaded, the factory function returns with the record {width:   *)
(* default, height: default}. A saveState call returns whether its write   *)
(* succeeds or fails, with the record being what its read made it and the  *)
(* tracked handle, listeners and timeout untouched; so does the 'closed'   *)
(* handler, with the record untouched and the handle unmanaged. A failed   *)
(* write leaves the persisted data as they were.                           *)
C16_PersistenceFailureSwallowed ==
    [][/\ (stored = Null /\ Merge) => (pc' = "ready" /\ state' = SizeDefaults)
       /\ \A w \in Windows \cup {NoWin} : SaveState(w) =>
             /\ pc' = "ready"
             /\ state' = IF w # NoWin /\ ~win[w].destroyed
                         THEN AfterRead(state, win[w]) ELSE state
             /\ stored' = state' \/ stored' = stored
             /\ UNCHANGED <<winRef, listeners, timers, stateChangeTimer, win>>
       /\ \A w \in Windows : (listeners[w]["closed"] > 0 /\ Closed(w)) =>
             /\ pc' = "ready"
             /\ state' = state
             /\ stored' = state \/ stored' = stored
             /\ winRef' = NoWin /\ timers' = {}]_vars

\* nothing could be loaded, and both writes of the two 'closed' handlers of
\* the window have failed: the controller goes on with the default record
C16_Witness ==
    /\ pc = "ready"
    /\ stored = Null
    /\ state = SizeDefaults
    /\ win["h1"].destroyed
    /\ closedWrites = 2
    /\ winRef = NoWin

(* C17: a state read of a destroyed window, whose getBounds() throws into  *)
(* the catch of updateState, leaves the record exactly as it was, bounds   *)
(* and mode flags alike, and the caller goes on.                           *)
C17_DestroyedReadKeepsRecord ==
    [][staleRead' => (state' = state /\ pc' = "ready")]_vars

\* saveState(win) has been called with the destroyed window: the record
\* still has the bounds and the maximized flag it had before, and that is
\* what has been written
C17_Witness ==
    /\ staleRead
    /\ win["h1"].destroyed
    /\ "x" \in DOMAIN state /\ state["x"] = I(1)
    /\ FlagTrue(state, "isMaximized")
    /\ stored = state

(* C18: moveWithinBounds, on a rectangle and bounds with positive sizes,   *)
(* yields a rectangle that is no wider and no taller than the bounds or    *)
(* than the rectangle it was given, and whose four edges lie within the    *)
(* bounds.                                                                 *)
C18_ClampedWithinBounds ==
    pc = "clamped" =>
        LET r == Rect(state)
            given == Rect(stored)
            b == displays[1]
        IN  /\ r.width <= b.width /\ r.width <= given.width
            /\ r.height <= b.height /\ r.height <= given.height
            /\ r.width > 0 /\ r.height > 0
            /\ b.x <= r.x /\ r.x + r.width <= b.x + b.width
            /\ b.y <= r.y /\ r.y + r.height <= b.y + b.height

\* a rectangle that is wider than the bounds and lies to the right of and
\* below them has been shrunk and moved
C18_Witness ==
    /\ pc = "clamped"
    /\ Rect(stored).width > displays[1].width
    /\ Rect(stored).x > displays[1].x + displays[1].width
    /\ Rect(stored).y > displays[1].y + displays[1].height
    /\ Rect(state).width = displays[1].width
    /\ Rect(state).x = displays[1].x
    /\ Rect(state).y = displays[1].y + displays[1].height - Rect(state).height

\* a record whose fields are integers and whose width or height is 0
ZeroArea(r) ==
    /\ r # Null
    /\ \A f \in BoundFields : f \in DOMAIN r /\ r[f].t = "int"
    /\ r["width"].v = 0 \/ r["height"].v = 0

(* C19: whenever the factory function computes the overlap of the loaded  *)
(* record with the displays, the divisor width * height is positive and    *)
(* the quotient lies in [0, 1], for records at negative coordinates too;   *)
(* and for a loaded record of zero area the overlap is not computed at     *)
(* all, so that nothing is divided by zero.                                *)
C19_OverlapRatioInRange ==
    /\ enumerated =>
          \A i \in 1 .. Len(displays) :
              LET r == partOfWindowWithinBounds(stored, displays[i])
              IN  r.den > 0 /\ 0 <= r.num /\ r.num <= r.den
    /\ (Reconciled /\ ZeroArea(stored)) => ~enumerated

\* the overlap of a record at a negative x with a display has been computed
\* and lies strictly between 0 and 1
C19_Witness ==
    /\ pc = "validated"
    /\ enumerated
    /\ stored["x"].v < 0
    /\ \E i \in 1 .. Len(displays) :
          LET r == partOfWindowWithinBounds(stored, displays[i])
          IN  0 < r.num /\ r.num < r.den

(* C20: once the factory function has returned, the record is never null   *)
(* or undefined, and its width and height are defined. A loaded record     *)
(* that is valid by a mode flag keeps a width that is null or undefined:   *)
(* Object.assign copies it over the fallback value.                        *)
C20_RecordNeverAbsent ==
    pc = "ready" =>
        /\ state # Null
        /\ \A f \in {"width", "height"} : f \in DOMAIN state /\ state[f] # Nullish

====
